---- MODULE Spec2Model ----
(***************************************************************************)
(* A model of scripts/agent_pipeline.py: the pipeline that takes pending   *)
(* tasks from a Notion database, writes a spec section back, creates and   *)
(* validates a mock file, and publishes it through git and gh.             *)
(*                                                                         *)
(* Text is modelled as a sequence of one-character strings, so that        *)
(* strip(), rstrip(), split() and replace() do what the Python code does.  *)
(* A character outside ASCII is written as its code point, "U+529F".       *)
(***************************************************************************)
EXTENDS Naturals, Sequences, FiniteSets, TLC

\* ------------------------------------------------------------------ bounds

\* Number of pages the Notion database holds.
NumPages == 2

\* ------------------------------------------------------------------ text

WS == {" ", "\n", "\t"}

RECURSIVE lstrip(_)
lstrip(s) ==
    IF s # <<>> /\ Head(s) \in WS THEN lstrip(Tail(s)) ELSE s

RECURSIVE rstrip(_)
rstrip(s) ==
    IF s # <<>> /\ s[Len(s)] \in WS THEN rstrip(SubSeq(s, 1, Len(s) - 1)) ELSE s

strip(s) == lstrip(rstrip(s))

UpperCase ==
    <<"A", "B", "C", "D", "E", "F", "G", "H", "I", "J", "K", "L", "M",
      "N", "O", "P", "Q", "R", "S", "T", "U", "V", "W", "X", "Y", "Z">>

LowerCase ==
    <<"a", "b", "c", "d", "e", "f", "g", "h", "i", "j", "k", "l", "m",
      "n", "o", "p", "q", "r", "s", "t", "u", "v", "w", "x", "y", "z">>

Digits == <<"0", "1", "2", "3", "4", "5", "6", "7", "8", "9">>

Range(s) == {s[k] : k \in DOMAIN s}

lower_char(c) ==
    IF c \in Range(UpperCase)
    THEN LowerCase[CHOOSE k \in DOMAIN UpperCase : UpperCase[k] = c]
    ELSE c

lower(s) == [k \in DOMAIN s |-> lower_char(s[k])]

\* The CJK ideographs of the script's literals; str.isalnum() is true of them.
Ideographs ==
    {"U+4F9D", "U+5145", "U+5165", "U+51C6", "U+51FA", "U+529F", "U+53E3",
     "U+56F4", "U+5F85", "U+636E", "U+63A5", "U+6536", "U+6570", "U+666F",
     "U+675F", "U+6784", "U+6807", "U+6982", "U+6C42", "U+6D4B", "U+70B9",
     "U+76EE", "U+786E", "U+7EA6", "U+7ED3", "U+80CC", "U+80FD", "U+8303",
     "U+8865", "U+8BA4", "U+8BD5", "U+8D56", "U+8F93", "U+8FF0", "U+9669",
     "U+9700", "U+98CE", "U+9A8C"}

isalnum(c) ==
    c \in Range(UpperCase) \cup Range(LowerCase) \cup Range(Digits) \cup Ideographs

\* s.replace(a, b) for single characters a, with b a string.
RECURSIVE replace(_, _, _)
replace(s, a, b) ==
    IF s = <<>> THEN <<>>
    ELSE (IF Head(s) = a THEN b ELSE <<Head(s)>>) \o replace(Tail(s), a, b)

\* s.split(sep)[0]: the part of s before the first sep.
RECURSIVE split_first(_, _)
split_first(s, sep) ==
    IF s = <<>> \/ Head(s) = sep THEN <<>>
    ELSE <<Head(s)>> \o split_first(Tail(s), sep)

\* s[:n]
truncate(s, n) == SubSeq(s, 1, IF Len(s) < n THEN Len(s) ELSE n)

\* ------------------------------------------------------------------ spec and sections

spec_head ==
    <<"#", " ", "U+529F", "U+80FD", "U+6982", "U+8FF0", "\n",
      "-", " ", "U+76EE", "U+6807", "U+FF1A">>

spec_background ==
    <<"\n", "-", " ", "U+80CC", "U+666F", "U+FF1A">>

spec_placeholder ==
    <<"U+5F85", "U+8865", "U+5145">>

spec_tail ==
    <<"\n", "\n", "#", " ", "U+9700", "U+6C42", "U+8303", "U+56F4", "\n",
      "-", " ", "M", "u", "s", "t", "U+FF1A", "\n",
      "-", " ", "S", "h", "o", "u", "l", "d", "U+FF1A", "\n",
      "-", " ", "O", "p", "t", "i", "o", "n", "a", "l", "U+FF1A", "\n", "\n",
      "#", " ", "U+7EA6", "U+675F", "/", "U+4F9D", "U+8D56", "\n",
      "-", " ", "U+7EA6", "U+675F", "U+FF1A", "\n",
      "-", " ", "U+4F9D", "U+8D56", "U+FF1A", "\n", "\n",
      "#", " ", "U+63A5", "U+53E3", "/", "U+6570", "U+636E", "\n",
      "-", " ", "U+8F93", "U+5165", "U+FF1A", "\n",
      "-", " ", "U+8F93", "U+51FA", "U+FF1A", "\n",
      "-", " ", "U+6570", "U+636E", "U+7ED3", "U+6784", "U+FF1A", "\n", "\n",
      "#", " ", "U+9A8C", "U+6536", "U+6807", "U+51C6", "\n",
      "-", " ", "[", " ", "]", " ", "\n",
      "-", " ", "[", " ", "]", " ", "\n", "\n",
      "#", " ", "U+6D4B", "U+8BD5", "U+70B9", "\n",
      "-", " ", "[", " ", "]", " ", "\n",
      "-", " ", "[", " ", "]", " ", "\n", "\n",
      "#", " ", "U+98CE", "U+9669", "/", "U+5F85", "U+786E", "U+8BA4", "\n",
      "-", " ", "\n">>

build_spec(task) ==
    spec_head \o task.title \o spec_background
        \o (IF task.description # <<>> THEN task.description ELSE spec_placeholder)
        \o spec_tail

build_section(title, body) ==
    <<"#", "#", " ">> \o title \o <<"\n">> \o strip(body) \o <<"\n">>

Delimiter == <<"\n", "\n", "-", "-", "-", "\n", "\n">>

\* The new section put in the place of the text.
append_section_replace(existing, title, body) == build_section(title, body)

\* A text of blanks only taken for an empty one.
append_section_blank_is_empty(existing, title, body) ==
    IF rstrip(existing) = <<>>
    THEN build_section(title, body)
    ELSE rstrip(existing) \o Delimiter \o build_section(title, body)

append_section(existing, title, body) ==
    IF existing = <<>>
    THEN build_section(title, body)
    ELSE rstrip(existing) \o Delimiter \o build_section(title, body)

SpecTitle == <<"S", "p", "e", "c">>
PRTitle == <<"P", "R">>
TestReportTitle == <<"T", "e", "s", "t", " ", "R", "e", "p", "o", "r", "t">>

\* ------------------------------------------------------------------ configuration

\* The values of the "status" property (line 91, line 225, lines 252 and 254):
\* U+5F85 U+5904 U+7406, U+8FDB U+884C U+4E2D and U+5F85 U+6D4B U+8BD5.
Pending == "pending"
InProgress == "in-progress"
AwaitingTest == "awaiting-test"

Feature == <<"f", "e", "a", "t", "u", "r", "e">>

\* os.environ.get(name, ""): an unset variable reads as the empty string.
GoodEnv(dry, wait) ==
    [NOTION_TOKEN |-> <<"t", "k">>, NOTION_DATABASE_ID |-> <<" ", "d", "b">>,
     GITHUB_REPO |-> <<"o", "/", "r">>, BRANCH_PREFIX |-> <<>>,
     DRY_RUN |-> dry, WAIT_FOR_CI |-> wait]

Envs ==
    {GoodEnv(dry, wait) : dry \in {<<>>, <<"1">>}, wait \in {<<>>, <<"1", " ">>}}
        \cup {[GoodEnv(<<>>, <<>>) EXCEPT !.NOTION_TOKEN = <<>>],
              [GoodEnv(<<>>, <<>>) EXCEPT !.GITHUB_REPO = <<" ">>],
              [GoodEnv(<<"1">>, <<>>) EXCEPT !.NOTION_DATABASE_ID = <<"\t", " ">>],
              [GoodEnv(<<>>, <<"1", " ">>) EXCEPT !.NOTION_TOKEN = <<" ">>,
                                                  !.GITHUB_REPO = <<>>]}

\* What load_config prints before sys.exit(2) (line 67).
MissingMessage ==
    <<"M", "i", "s", "s", "i", "n", "g", " ", "r", "e", "q", "u", "i", "r",
      "e", "d", " ", "e", "n", "v", " ", "v", "a", "r", "s", ":", " ", "N",
      "O", "T", "I", "O", "N", "_", "T", "O", "K", "E", "N", ",", " ", "N",
      "O", "T", "I", "O", "N", "_", "D", "A", "T", "A", "B", "A", "S", "E",
      "_", "I", "D", ",", " ", "G", "I", "T", "H", "U", "B", "_", "R", "E",
      "P", "O", "\n">>

\* The configuration refused only when all three values are missing.
config_missing_all(e) ==
    /\ strip(e.NOTION_TOKEN) = <<>>
    /\ strip(e.NOTION_DATABASE_ID) = <<>>
    /\ strip(e.GITHUB_REPO) = <<>>

config_missing(e) ==
    \/ strip(e.NOTION_TOKEN) = <<>>
    \/ strip(e.NOTION_DATABASE_ID) = <<>>
    \/ strip(e.GITHUB_REPO) = <<>>

load_config(e) ==
    [notion_token |-> strip(e.NOTION_TOKEN),
     notion_database_id |-> strip(e.NOTION_DATABASE_ID),
     github_repo |-> strip(e.GITHUB_REPO),
     branch_prefix |->
         IF strip(e.BRANCH_PREFIX) # <<>> THEN strip(e.BRANCH_PREFIX) ELSE Feature,
     dry_run |-> strip(e.DRY_RUN) = <<"1">>]

NoConfig ==
    [notion_token |-> <<>>, notion_database_id |-> <<>>, github_repo |-> <<>>,
     branch_prefix |-> <<>>, dry_run |-> FALSE]

wait_for_ci(e) == strip(e.WAIT_FOR_CI) = <<"1">>

\* ------------------------------------------------------------------ tracker

\* The pages of the database, in the order the query returns them.
PageIds ==
    <<(<<"a", "1", "-", "x">>), (<<"a", "1", "-", "y">>),
      (<<"b", "2", "-", "x">>), (<<"b", "2", "-", "y">>)>>

Titles == {<<"A", " ", "b", "!", " ">>, <<>>}

PageDescription(k) == IF k % 2 = 1 THEN <<>> ELSE <<"d", "o">>

PageAcceptance(k) == IF k % 2 = 1 THEN <<>> ELSE <<"o", "l", "d", "\n">>

Untitled == <<"U", "n", "t", "i", "t", "l", "e", "d">>

is_pending_no_filter(page) == TRUE

\* The filter of the query's payload (lines 88-93).
is_pending(page) == page.status = Pending

\* One page of the query's result as a NotionTask.
to_task(page) ==
    [page_id |-> page.id,
     title |-> IF strip(page.title) # <<>> THEN strip(page.title) ELSE Untitled,
     description |-> strip(page.description),
     acceptance |-> strip(page.acceptance)]

\* The result built by inserting each page at the front.
RECURSIVE notion_query_tasks_reversed(_)
notion_query_tasks_reversed(pages) ==
    IF pages = <<>> THEN <<>>
    ELSE notion_query_tasks_reversed(Tail(pages))
             \o (IF is_pending(Head(pages)) THEN <<to_task(Head(pages))>> ELSE <<>>)

RECURSIVE notion_query_tasks(_)
notion_query_tasks(pages) ==
    IF pages = <<>> THEN <<>>
    ELSE (IF is_pending(Head(pages)) THEN <<to_task(Head(pages))>> ELSE <<>>)
             \o notion_query_tasks(Tail(pages))

\* The database after a PATCH of page_id has been applied.
patch_page(pages, page_id, new_text, status) ==
    [k \in DOMAIN pages |->
        IF pages[k].id = page_id
        THEN [pages[k] EXCEPT !.acceptance = new_text, !.status = status]
        ELSE pages[k]]

\* ------------------------------------------------------------------ mock files

MockSuffix == <<".", "m", "o", "c", "k", ".", "j", "s", "o", "n">>

mock_file(page_id) == replace(page_id, "-", <<>>) \o MockSuffix

Required ==
    {"task_id", "title", "description", "inputs", "outputs", "cases", "notes"}

default_payload(task) ==
    [task_id |-> task.page_id,
     title |-> task.title,
     description |-> "mock purpose and scope",
     inputs |-> "{params: {}, body: {}}",
     outputs |-> "{status: 200, body: {}}",
     cases |-> "[{name: happy-path, inputs: {}, expected: {}}]",
     notes |-> "edge cases / exclusions"]

\* The difference taken the wrong way round.
missing_fields_reversed(data) == DOMAIN data \ Required

missing_fields(data) == Required \ DOMAIN data

\* A document taken for valid as soon as it has one of the fields.
mock_is_valid_any_field(data) == Required \cap DOMAIN data # {}

\* validate_mock returns normally.
mock_is_valid(data) == missing_fields(data) = {}

\* The path ensure_mock returns, relative to repo_root (lines 160-162).
mock_path(page_id) == <<"m", "o", "c", "k", "s", "/">> \o mock_file(page_id)

\* The mocks directory after write_text of the default document (lines 165-174).
write_default(fs, task) ==
    [f \in DOMAIN fs \cup {mock_file(task.page_id)} |->
        IF f = mock_file(task.page_id) THEN default_payload(task) ELSE fs[f]]

\* The default document written whether or not the file exists.
ensure_mock_overwrite(task, fs) ==
    [path |-> mock_path(task.page_id), files |-> write_default(fs, task)]

\* ensure_mock when its calls return: the path, and the mocks directory after.
ensure_mock(task, fs) ==
    [path |-> mock_path(task.page_id),
     files |-> IF mock_file(task.page_id) \in DOMAIN fs
               THEN fs
               ELSE write_default(fs, task)]

\* Documents a mock file may hold before the run: one edited by hand that
\* has every required field and one more, and one that lacks "notes".
Restrict(f, S) == [x \in S |-> f[x]]

EditedMock(page) ==
    [default_payload(to_task(page)) EXCEPT !.description = "edited"]
        @@ ("owner" :> "qa")

BrokenMock(page) ==
    Restrict(default_payload(to_task(page)), Required \ {"notes"})

\* ------------------------------------------------------------------ git and gh

\* The spaces turned into dashes before the trimming.
git_branch_name_replace_first(prefix, task) ==
    LET short_id == split_first(task.page_id, "-")
        kept == SelectSeq(lower(task.title),
                          LAMBDA c : isalnum(c) \/ c \in {"-", "_", " "})
        safe_title == strip(replace(kept, " ", <<"-">>))
    IN prefix \o <<"/">> \o short_id \o <<"-">>
           \o (IF safe_title # <<>> THEN truncate(safe_title, 40)
               ELSE <<"t", "a", "s", "k">>)

git_branch_name(prefix, task) ==
    LET short_id == split_first(task.page_id, "-")
        kept == SelectSeq(lower(task.title),
                          LAMBDA c : isalnum(c) \/ c \in {"-", "_", " "})
        safe_title == replace(strip(kept), " ", <<"-">>)
    IN prefix \o <<"/">> \o short_id \o <<"-">>
           \o (IF safe_title # <<>> THEN truncate(safe_title, 40)
               ELSE <<"t", "a", "s", "k">>)

CommitPrefix ==
    <<"A", "d", "d", " ", "m", "o", "c", "k", " ", "f", "o", "r", " ">>

Main == <<"m", "a", "i", "n">>

EmptyTree == [p \in {} |-> <<>>]

\* The URL gh prints for the n-th pull request of the repository.
pr_url_of(repo, n) == repo \o <<"/", "p", "u", "l", "l", "/">> \o <<Digits[n + 1]>>

\* The summary gh pr checks prints, as sh() returns it (stripped).
ChecksOutput == <<"b", "u", "i", "l", "d", "\t", "p", "a", "s", "s", "\n">>

\* ------------------------------------------------------------------ state

VARIABLES
    call,             \* the function called on its own, its arguments and what it returned
    env,              \* the process environment
    cfg,              \* main's Config, once loaded
    db,               \* the pages of the Notion database, with their properties
    tasks,            \* main's list of tasks, as the query returned it
    i,                \* the position of the for loop in tasks (1-based)
    pc,               \* the statement main is about to execute
    acceptance_text,  \* main's local of that name
    updated_text,     \* main's local of that name
    branch,           \* main's local of that name
    pr_url,           \* main's local of that name
    mocks_dir,        \* whether <repo_root>/mocks exists
    files,            \* the files of <repo_root>/mocks: name -> JSON document
    git,              \* the repository: checked-out branch, branches, index, remote
    prs,              \* the pull requests of the hosting repository
    log,              \* every external call issued so far, in order
    stderr            \* what the process has printed to standard error

vars ==
    <<call, stderr, env, cfg, db, tasks, i, pc, acceptance_text, updated_text, branch, pr_url,
      mocks_dir, files, git, prs, log>>

locals == <<acceptance_text, updated_text, branch, pr_url>>
world == <<db, mocks_dir, files, git, prs>>

\* No function is called on its own while main runs.
NoCall == [fn |-> "", args |-> <<>>, done |-> FALSE, result |-> <<>>]

\* One external call: a tracker request, a file-system call or a subprocess.
Entry(op, page_id, status, text, ok) ==
    [op |-> op, page |-> page_id, status |-> status, text |-> text, ok |-> ok]

NoPage == <<>>

\* ------------------------------------------------------------------ control flow of main

\* The status written with the Spec section (line 225) and with the PR
\* section (lines 252 and 254).
\* The Spec section written without taking the task.
status_after_spec_pending == Pending

status_after_spec == InProgress

status_after_pr_swapped == InProgress

status_after_pr == AwaitingTest

after_validate_no_gate(dry_run) == "checkout"

\* Lines 231-233: the dry-run gate.
after_validate(dry_run) == IF dry_run THEN "continue" ELSE "checkout"

after_pr_create_update_in_wait_only(wait) ==
    IF wait THEN "pr_checks" ELSE "continue"

after_pr_create_always_wait(wait) == "pr_checks"

\* The checks never watched.
after_pr_create_never_wait(wait) == "update_awaiting_test"

\* Lines 249-254: the WAIT_FOR_CI fork.
after_pr_create(wait) == IF wait THEN "pr_checks" ELSE "update_awaiting_test"

\* The loop body with the mock made and validated before the tracker is told.
step_after_mock_first(step, dry_run, wait) ==
    CASE step = "loop_top" -> "ensure_mock"
      [] step = "ensure_mock" -> "ensure_mock_write"
      [] step = "ensure_mock_write" -> "validate_mock"
      [] step = "validate_mock" -> "update_in_progress"
      [] step = "update_in_progress" -> after_validate(dry_run)
      [] step = "checkout" -> "add"
      [] step = "add" -> "commit"
      [] step = "commit" -> "push"
      [] step = "push" -> "pr_create"
      [] step = "pr_create" -> after_pr_create(wait)
      [] step = "pr_checks" -> "update_awaiting_test"
      [] step = "update_awaiting_test" -> "continue"

\* The statement that follows a call that returned, in the loop body
\* (lines 221-255); "loop_top" is the head of the for loop.
step_after(step, dry_run, wait) ==
    CASE step = "loop_top" -> "update_in_progress"
      [] step = "update_in_progress" -> "ensure_mock"
      [] step = "ensure_mock" -> "ensure_mock_write"
      [] step = "ensure_mock_write" -> "validate_mock"
      [] step = "validate_mock" -> after_validate(dry_run)
      [] step = "checkout" -> "add"
      [] step = "add" -> "commit"
      [] step = "commit" -> "push"
      [] step = "push" -> "pr_create"
      [] step = "pr_create" -> after_pr_create(wait)
      [] step = "pr_checks" -> "update_awaiting_test"
      [] step = "update_awaiting_test" -> "continue"

\* validate_mock's error caught and passed over.
after_call_validation_swallowed(ok, step, dry_run, wait) ==
    IF ok \/ step = "validate_mock" THEN step_after(step, dry_run, wait) ELSE "raised"

\* subprocess.run without check=True: a failing git command goes unnoticed.
after_call_unchecked(ok, step, dry_run, wait) ==
    IF ok \/ step \in {"checkout", "add", "commit", "push"}
    THEN step_after(step, dry_run, wait)
    ELSE "raised"

\* subprocess.run(check=True), raise_for_status() and validate_mock's raise:
\* a call that fails raises, and nothing in main catches it.
after_call(ok, step, dry_run, wait) ==
    IF ok THEN step_after(step, dry_run, wait) ELSE "raised"

\* The for loop: the next task, or return 0 after the last.
Goto(target) ==
    IF target = "continue"
    THEN IF i < Len(tasks)
         THEN pc' = step_after("loop_top", cfg.dry_run, wait_for_ci(env)) /\ i' = i + 1
         ELSE pc' = "returned" /\ i' = i
    ELSE pc' = target /\ i' = i

Done(ok, step) == Goto(after_call(ok, step, cfg.dry_run, wait_for_ci(env)))

ExitCode ==
    CASE pc = "returned" -> 0
      [] pc = "sys_exit_2" -> 2
      [] pc = "raised" -> 1
      [] OTHER -> 255

\* ------------------------------------------------------------------ initial states

Page(k, title, status) ==
    [id |-> PageIds[k], title |-> title, description |-> PageDescription(k),
     acceptance |-> PageAcceptance(k), status |-> status]

PriorMock(page, kind) ==
    IF kind = "edited" THEN EditedMock(page) ELSE BrokenMock(page)

Init ==
    /\ env \in Envs
    /\ cfg = NoConfig
    /\ \E titles \in [1..NumPages -> Titles],
          statuses \in [1..NumPages -> {Pending, InProgress}] :
           db = [k \in 1..NumPages |-> Page(k, titles[k], statuses[k])]
    /\ tasks = <<>>
    /\ i = 0
    /\ pc = "load_config"
    /\ acceptance_text = <<>>
    /\ updated_text = <<>>
    /\ branch = <<>>
    /\ pr_url = <<>>
    /\ \E prior \in [1..NumPages -> {"absent", "edited", "broken"}] :
           files = [f \in {mock_file(PageIds[k]) :
                             k \in {n \in 1..NumPages : prior[n] # "absent"}} |->
                       LET k == CHOOSE n \in 1..NumPages : mock_file(PageIds[n]) = f
                       IN PriorMock(db[k], prior[k])]
    /\ mocks_dir \in (IF DOMAIN files = {} THEN BOOLEAN ELSE {TRUE})
    /\ \E committed \in BOOLEAN :
           LET tree == IF committed THEN files ELSE EmptyTree
               root == <<[message |-> <<"i", "n", "i", "t">>, tree |-> tree]>>
           IN git = [head |-> Main, branches |-> (Main :> root),
                     index |-> tree, remote |-> (Main :> root)]
    /\ prs = <<>>
    /\ log = <<>>
    /\ stderr = <<>>
    /\ call = NoCall

\* ------------------------------------------------------------------ actions

task == tasks[i]

\* main, line 214: load_config, which exits with 2 when a required value is empty.
main_load_config ==
    /\ pc = "load_config"
    /\ IF config_missing(env)
       THEN pc' = "sys_exit_2" /\ cfg' = cfg /\ stderr' = stderr \o MissingMessage
       ELSE pc' = "query" /\ cfg' = load_config(env) /\ stderr' = stderr
    /\ UNCHANGED <<call, env, tasks, i, locals, world, log>>

\* main, lines 216-219: the query; an empty list returns 0.
main_query ==
    /\ pc = "query"
    /\ \E ok \in BOOLEAN :
        /\ log' = Append(log, Entry("query", NoPage, Pending, <<>>, ok))
        /\ IF ok
           THEN /\ tasks' = notion_query_tasks(db)
                /\ IF tasks' = <<>>
                   THEN pc' = "returned" /\ i' = i
                   ELSE /\ pc' = step_after("loop_top", cfg.dry_run, wait_for_ci(env))
                        /\ i' = 1
           ELSE pc' = "raised" /\ UNCHANGED <<tasks, i>>
    /\ UNCHANGED <<call, stderr, env, cfg, locals, world>>

\* update_notion_acceptance: one PATCH.  It returns ("ok"), or the request
\* is refused ("error"), or it is applied and the response is lost within
\* the timeout ("lost"); both failures raise.
update_notion_acceptance(step, page_id, new_text, status) ==
    \E outcome \in {"ok", "error", "lost"} :
        /\ db' = IF outcome = "error" THEN db
                 ELSE patch_page(db, page_id, new_text, status)
        /\ log' = Append(log, Entry("update", page_id, status, new_text,
                                    outcome = "ok"))
        /\ Done(outcome = "ok", step)

\* main, lines 222-225.
main_update_in_progress ==
    /\ pc = "update_in_progress"
    /\ acceptance_text' = append_section(task.acceptance, SpecTitle, build_spec(task))
    /\ update_notion_acceptance("update_in_progress", task.page_id,
                                acceptance_text', status_after_spec)
    /\ UNCHANGED <<call, stderr, env, cfg, tasks, updated_text, branch, pr_url,
                   mocks_dir, files, git, prs>>

\* ensure_mock, lines 160-161: mkdir(parents=True, exist_ok=True).
ensure_mock_mkdir ==
    /\ pc = "ensure_mock"
    /\ \E ok \in BOOLEAN :
        /\ mocks_dir' = (mocks_dir \/ ok)
        /\ log' = Append(log, Entry("mkdir", task.page_id, "", <<>>, ok))
        /\ Done(ok, "ensure_mock")
    /\ UNCHANGED <<call, stderr, env, cfg, tasks, locals, db, files, git, prs>>

\* ensure_mock, lines 162-175: an existing file is returned as it is,
\* otherwise the default document is written.
ensure_mock_write ==
    /\ pc = "ensure_mock_write"
    /\ \/ /\ mock_file(task.page_id) \in DOMAIN files
          /\ UNCHANGED <<files, log>>
          /\ Done(TRUE, "ensure_mock_write")
       \/ /\ mock_file(task.page_id) \notin DOMAIN files
          /\ \E ok \in BOOLEAN :
              /\ files' = IF ok THEN ensure_mock(task, files).files ELSE files
              /\ log' = Append(log, Entry("write", task.page_id, "", <<>>, ok))
              /\ Done(ok, "ensure_mock_write")
    /\ UNCHANGED <<call, stderr, env, cfg, tasks, locals, db, mocks_dir, git, prs>>

\* validate_mock, lines 177-182, called at line 228.
main_validate_mock ==
    /\ pc = "validate_mock"
    /\ LET ok == mock_is_valid(files[mock_file(task.page_id)])
       IN /\ log' = Append(log, Entry("validate", task.page_id, "", <<>>, ok))
          /\ Done(ok, "validate_mock")
    /\ UNCHANGED <<call, stderr, env, cfg, tasks, locals, world>>

\* Every branch created from the base branch.
head_history_from_base == git.branches[Main]

head_history == git.branches[git.head]
head_tree == head_history[Len(head_history)].tree

\* A function with f[x] set to v, x added to the domain if need be.
Put(f, x, v) == [y \in DOMAIN f \cup {x} |-> IF y = x THEN v ELSE f[y]]

\* main, line 235, and create_branch_and_commit, line 193: git checkout -b,
\* which fails when the branch exists.
git_checkout_b ==
    /\ pc = "checkout"
    /\ branch' = git_branch_name(cfg.branch_prefix, task)
    /\ \E ok \in BOOLEAN :
        /\ ok => branch' \notin DOMAIN git.branches
        /\ git' = IF ok
                  THEN [git EXCEPT !.head = branch',
                                   !.branches = Put(@, branch', head_history)]
                  ELSE git
        /\ log' = Append(log, Entry("checkout", task.page_id, "", branch', ok))
        /\ Done(ok, "checkout")
    /\ UNCHANGED <<call, stderr, env, cfg, tasks, acceptance_text, updated_text, pr_url,
                   db, mocks_dir, files, prs>>

\* create_branch_and_commit, line 194: git add mocks stages the directory.
git_add ==
    /\ pc = "add"
    /\ \E ok \in BOOLEAN :
        /\ git' = IF ok THEN [git EXCEPT !.index = files] ELSE git
        /\ log' = Append(log, Entry("add", task.page_id, "", branch, ok))
        /\ Done(ok, "add")
    /\ UNCHANGED <<call, stderr, env, cfg, tasks, locals, db, mocks_dir, files, prs>>

\* create_branch_and_commit, line 195: git commit, which fails when the
\* index holds nothing new.
git_commit ==
    /\ pc = "commit"
    /\ \E ok \in BOOLEAN :
        /\ ok => git.index # head_tree
        /\ git' = IF ok
                  THEN [git EXCEPT !.branches[git.head] =
                            Append(@, [message |-> CommitPrefix \o task.title,
                                       tree |-> git.index])]
                  ELSE git
        /\ log' = Append(log, Entry("commit", task.page_id, "", branch, ok))
        /\ Done(ok, "commit")
    /\ UNCHANGED <<call, stderr, env, cfg, tasks, locals, db, mocks_dir, files, prs>>

\* main, line 237: git push -u origin <branch>.
git_push ==
    /\ pc = "push"
    /\ \E ok \in BOOLEAN :
        /\ git' = IF ok
                  THEN [git EXCEPT !.remote = Put(@, branch, git.branches[branch])]
                  ELSE git
        /\ log' = Append(log, Entry("push", task.page_id, "", branch, ok))
        /\ Done(ok, "push")
    /\ UNCHANGED <<call, stderr, env, cfg, tasks, locals, db, mocks_dir, files, prs>>

\* main, lines 239-247: gh pr create, and the PR section.
main_gh_create_pr ==
    /\ pc = "pr_create"
    /\ \E ok \in BOOLEAN :
        /\ IF ok
           THEN /\ pr_url' = pr_url_of(cfg.github_repo, Len(prs) + 1)
                /\ prs' = Append(prs, [title |-> task.title, head |-> git.head,
                                       url |-> pr_url'])
                /\ updated_text' = append_section(acceptance_text, PRTitle, pr_url')
           ELSE UNCHANGED <<pr_url, prs, updated_text>>
        /\ log' = Append(log, Entry("pr_create", task.page_id, "", task.title, ok))
        /\ Done(ok, "pr_create")
    /\ UNCHANGED <<call, stderr, env, cfg, tasks, acceptance_text, branch,
                   db, mocks_dir, files, git>>

\* main, lines 250-251: gh pr checks --watch, and the Test Report section.
main_gh_wait_for_checks ==
    /\ pc = "pr_checks"
    /\ \E ok \in BOOLEAN :
        /\ updated_text' =
               IF ok
               THEN append_section(updated_text, TestReportTitle, strip(ChecksOutput))
               ELSE updated_text
        /\ log' = Append(log, Entry("pr_checks", task.page_id, "", pr_url, ok))
        /\ Done(ok, "pr_checks")
    /\ UNCHANGED <<call, stderr, env, cfg, tasks, acceptance_text, branch, pr_url, world>>

\* main, lines 252 and 254.
main_update_awaiting_test ==
    /\ pc = "update_awaiting_test"
    /\ update_notion_acceptance("update_awaiting_test", task.page_id,
                                updated_text, status_after_pr)
    /\ UNCHANGED <<call, stderr, env, cfg, tasks, locals, mocks_dir, files, git, prs>>

Next ==
    \/ main_load_config
    \/ main_query
    \/ main_update_in_progress
    \/ ensure_mock_mkdir
    \/ ensure_mock_write
    \/ main_validate_mock
    \/ git_checkout_b
    \/ git_add
    \/ git_commit
    \/ git_push
    \/ main_gh_create_pr
    \/ main_gh_wait_for_checks
    \/ main_update_awaiting_test

Spec == Init /\ [][Next]_vars

\* ------------------------------------------------------------------ reading the log

FsWriteOps == {"mkdir", "write"}
FsOps == FsWriteOps \cup {"validate"}
VcsOps == {"checkout", "add", "commit", "push", "pr_create", "pr_checks"}

DryRunSet == env.DRY_RUN = <<"1">>
WaitSet == env.WAIT_FOR_CI = <<"1", " ">>

Terminated == pc \in {"returned", "raised", "sys_exit_2"}

IsUpdate(e, status) == e.op = "update" /\ e.status = status

\* The positions of the log that concern page p.
Calls(p) == {k \in DOMAIN log : log[k].page = p}

\* The position of page p in the list of tasks (0 when it is not a task).
TaskIndex(p) ==
    IF \E n \in DOMAIN tasks : tasks[n].page_id = p
    THEN CHOOSE n \in DOMAIN tasks : tasks[n].page_id = p
    ELSE 0

\* The position of page p in the database.
PageIndex(p) == CHOOSE k \in DOMAIN db : db[k].id = p

\* Task n has gone through the whole loop body.
Completed(n) == n \in DOMAIN tasks /\ (n < i \/ (n = i /\ pc = "returned"))

\* Task n has been started: its first call has been issued.
Started(n) ==
    n \in DOMAIN tasks /\ (n < i \/ (n = i /\ log[Len(log)].page = tasks[n].page_id))

\* The calls of page p among ops, as <<op, status>> pairs, in order.
Trace(p, ops) ==
    LET sel == SelectSeq(log, LAMBDA e : e.page = p /\ e.op \in ops)
    IN [k \in DOMAIN sel |-> <<sel[k].op, sel[k].status>>]

\* ------------------------------------------------------------------ claims

\* C1: for every task the in-progress update is issued, and has returned,
\* before any file-system or VCS/hosting call for that task; and every task
\* the run has started has its in-progress update issued, whatever the
\* DRY_RUN and WAIT_FOR_CI settings.
C1_InProgressFirst ==
    /\ \A k \in DOMAIN log :
           log[k].op \in FsOps \cup VcsOps =>
               \E j \in 1..(k - 1) :
                   /\ IsUpdate(log[j], InProgress)
                   /\ log[j].page = log[k].page
                   /\ log[j].ok
    /\ \A n \in DOMAIN tasks :
           Started(n) =>
               /\ Calls(tasks[n].page_id) # {}
               /\ LET first == CHOOSE k \in Calls(tasks[n].page_id) :
                                   \A j \in Calls(tasks[n].page_id) : k <= j
                  IN IsUpdate(log[first], InProgress)

C1_Witness ==
    /\ DryRunSet
    /\ pc = "returned"
    /\ Len(tasks) = 2
    /\ \E k \in DOMAIN log : log[k].op = "write" /\ log[k].page = tasks[2].page_id

\* C2: the statuses written for a task follow in-progress then awaiting-test:
\* an awaiting-test update comes after the task's successful in-progress
\* update and after its pull request was created; no in-progress update
\* follows an awaiting-test update of the same task; pending is never
\* written; a task gets at most one update of each status.
C2_StatusOrder ==
    /\ \A k \in DOMAIN log :
           IsUpdate(log[k], AwaitingTest) =>
               /\ \E j \in 1..(k - 1) :
                      /\ IsUpdate(log[j], InProgress)
                      /\ log[j].page = log[k].page /\ log[j].ok
               /\ \E j \in 1..(k - 1) :
                      /\ log[j].op = "pr_create"
                      /\ log[j].page = log[k].page /\ log[j].ok
    /\ \A j, k \in DOMAIN log :
           (/\ j < k
            /\ IsUpdate(log[j], AwaitingTest)
            /\ log[k].page = log[j].page) => ~IsUpdate(log[k], InProgress)
    /\ \A k \in DOMAIN log : ~IsUpdate(log[k], Pending)
    /\ \A n \in DOMAIN db : \A st \in {InProgress, AwaitingTest} :
           Cardinality({k \in Calls(db[n].id) : IsUpdate(log[k], st)}) <= 1

C2_Witness ==
    \E j, k \in DOMAIN log :
        /\ j < k
        /\ log[j].page = log[k].page
        /\ IsUpdate(log[j], InProgress) /\ log[j].ok
        /\ IsUpdate(log[k], AwaitingTest) /\ log[k].ok
        /\ db[PageIndex(log[k].page)].status = AwaitingTest

\* C3: with DRY_RUN set no VCS or hosting call is issued, every tracker
\* update carries in-progress, every task that went through the loop body
\* has exactly one tracker update and its mock file on disk, and no page is
\* set to awaiting-test.
C3_DryRun ==
    DryRunSet =>
        /\ \A k \in DOMAIN log : log[k].op \notin VcsOps
        /\ \A k \in DOMAIN log : log[k].op = "update" => log[k].status = InProgress
        /\ \A n \in DOMAIN tasks :
               Completed(n) =>
                   /\ Cardinality({k \in Calls(tasks[n].page_id) :
                                       log[k].op = "update"}) = 1
                   /\ mock_file(tasks[n].page_id) \in DOMAIN files
        /\ \A n \in DOMAIN db : db[n].status # AwaitingTest
        /\ git.head = Main /\ DOMAIN git.branches = {Main} /\ prs = <<>>

C3_Witness ==
    /\ DryRunSet
    /\ pc = "returned"
    /\ Len(tasks) = 2
    /\ \A n \in DOMAIN tasks : db[PageIndex(tasks[n].page_id)].status = InProgress

\* C4: no VCS or hosting call is issued for a task unless validate_mock has
\* succeeded for it earlier in the run and its mock file is on disk with all
\* of the seven required fields.
SevenFields ==
    {"task_id", "title", "description", "inputs", "outputs", "cases", "notes"}

C4_ValidatedBeforePublish ==
    \A k \in DOMAIN log :
        log[k].op \in VcsOps =>
            /\ \E j \in 1..(k - 1) :
                   log[j].op = "validate" /\ log[j].page = log[k].page /\ log[j].ok
            /\ mock_file(log[k].page) \in DOMAIN files
            /\ SevenFields \subseteq DOMAIN files[mock_file(log[k].page)]

\* A task whose mock file was there before the run, edited by hand, is published.
C4_Witness ==
    \E k \in DOMAIN log :
        /\ log[k].op = "push" /\ log[k].ok
        /\ "owner" \in DOMAIN files[mock_file(log[k].page)]

\* C5: when validate_mock fails for a task the run stops there: the failed
\* validation is the last call of the run, the process has raised and takes
\* no further step, and the last status written for the task, and the status
\* the tracker holds for it, is in-progress.
C5_ValidationFailureStops ==
    \A k \in DOMAIN log :
        (log[k].op = "validate" /\ ~log[k].ok) =>
            /\ k = Len(log)
            /\ pc = "raised"
            /\ ~ENABLED Next
            /\ LET p == log[k].page
                   ups == {j \in Calls(p) : log[j].op = "update"}
               IN /\ ups # {}
                  /\ \A j \in ups : IsUpdate(log[j], InProgress) /\ log[j].ok
                  /\ db[PageIndex(p)].status = InProgress
            /\ \A n \in DOMAIN tasks : n > i => Calls(tasks[n].page_id) = {}

\* The first of two tasks has a mock file that lacks a field.
C5_Witness ==
    /\ Len(tasks) = 2
    /\ i = 1
    /\ log # <<>>
    /\ log[Len(log)].op = "validate"
    /\ ~log[Len(log)].ok
    /\ "notes" \notin DOMAIN files[mock_file(tasks[1].page_id)]

\* What a call that returned has left behind is still there.
EffectKept(k) ==
    LET e == log[k]
    IN CASE e.op = "update" ->
                db[PageIndex(e.page)].status \in
                    {log[j].status : j \in {n \in Calls(e.page) :
                                               n >= k /\ log[n].op = "update"}}
         [] e.op = "mkdir" -> mocks_dir
         [] e.op = "write" -> mock_file(e.page) \in DOMAIN files
         [] e.op = "checkout" -> e.text \in DOMAIN git.branches
         [] e.op = "commit" ->
                \E n \in DOMAIN git.branches[e.text] :
                    git.branches[e.text][n].message =
                        CommitPrefix \o tasks[TaskIndex(e.page)].title
         [] e.op = "push" ->
                /\ e.text \in DOMAIN git.remote
                /\ git.remote[e.text] = git.branches[e.text]
         [] e.op = "pr_create" -> \E n \in DOMAIN prs : prs[n].title = e.text
         [] OTHER -> TRUE

\* C6: abort on the first error, with no retry and no rollback: a call that
\* failed is the last call of the run, the process has raised and takes no
\* further step, the tasks after the failing one have no call at all, and
\* what the calls before have done (tracker status, mocks directory and
\* file, branch, commit, push, pull request) is still in place.
C6_AbortOnFirstError ==
    /\ \A k \in DOMAIN log : ~log[k].ok => k = Len(log) /\ pc = "raised"
    /\ pc = "raised" =>
           /\ ~ENABLED Next
           /\ log # <<>> /\ ~log[Len(log)].ok
           /\ \A n \in DOMAIN tasks : n > i => Calls(tasks[n].page_id) = {}
    /\ \A k \in DOMAIN log : log[k].ok => EffectKept(k)

\* The push of the first of two tasks fails.
C6_Witness ==
    /\ pc = "raised"
    /\ Len(tasks) = 2
    /\ i = 1
    /\ log[Len(log)].op = "push"
    /\ branch \in DOMAIN git.branches
    /\ branch \notin DOMAIN git.remote

\* C7, as stated: once gh pr create has succeeded for a task, the run
\* writes the task back with status awaiting-test, with WAIT_FOR_CI set or
\* not: a run that has ended has issued that update.
C7_AwaitingTestAlwaysWritten ==
    Terminated =>
        \A k \in DOMAIN log :
            (log[k].op = "pr_create" /\ log[k].ok) =>
                \E j \in DOMAIN log :
                    j > k /\ IsUpdate(log[j], AwaitingTest)
                          /\ log[j].page = log[k].page

\* C7, amended: after a successful gh pr create the next call is the
\* awaiting-test update when WAIT_FOR_CI is not set, and gh pr checks when
\* it is set; after a gh pr checks that returned the next call is the
\* awaiting-test update; the run does not stop in between; and a run that
\* has ended without the awaiting-test update of a task whose pull request
\* was created is one whose gh pr checks failed.
C7_AwaitingTestUnlessChecksFail ==
    /\ \A k \in DOMAIN log :
           (log[k].op = "pr_create" /\ log[k].ok) =>
               IF k = Len(log)
               THEN pc = (IF WaitSet THEN "pr_checks" ELSE "update_awaiting_test")
               ELSE /\ log[k + 1].page = log[k].page
                    /\ IF WaitSet
                       THEN log[k + 1].op = "pr_checks"
                       ELSE IsUpdate(log[k + 1], AwaitingTest)
    /\ \A k \in DOMAIN log :
           (log[k].op = "pr_checks" /\ log[k].ok) =>
               IF k = Len(log)
               THEN pc = "update_awaiting_test"
               ELSE /\ log[k + 1].page = log[k].page
                    /\ IsUpdate(log[k + 1], AwaitingTest)
    /\ pc \in {"pr_checks", "update_awaiting_test"} => ENABLED Next
    /\ Terminated =>
           \A k \in DOMAIN log :
               (log[k].op = "pr_create" /\ log[k].ok) =>
                   \/ \E j \in DOMAIN log :
                          j > k /\ IsUpdate(log[j], AwaitingTest)
                                /\ log[j].page = log[k].page
                   \/ /\ WaitSet
                      /\ log[Len(log)].op = "pr_checks"
                      /\ ~log[Len(log)].ok

\* With WAIT_FOR_CI set, the checks have returned and the task is written back.
C7_Witness ==
    /\ WaitSet
    /\ \E k \in DOMAIN log :
           /\ k + 2 <= Len(log)
           /\ log[k].op = "pr_create" /\ log[k].ok
           /\ log[k + 1].op = "pr_checks" /\ log[k + 1].ok
           /\ IsUpdate(log[k + 2], AwaitingTest) /\ log[k + 2].ok

\* C8: with DRY_RUN and WAIT_FOR_CI not set, a task that went through the
\* loop body with every call returning has exactly these tracker, VCS and
\* hosting calls, in this order: the in-progress update, checkout -b, add,
\* commit, push, pr create, the awaiting-test update; so two tracker
\* updates, one pr create after the push, and no pr checks.
C8_NormalRunCalls ==
    (~DryRunSet /\ ~WaitSet) =>
        \A n \in DOMAIN tasks :
            Completed(n) =>
                Trace(tasks[n].page_id, {"update"} \cup VcsOps) =
                    <<(<<"update", InProgress>>), (<<"checkout", "">>),
                      (<<"add", "">>), (<<"commit", "">>), (<<"push", "">>),
                      (<<"pr_create", "">>), (<<"update", AwaitingTest>>)>>

C8_Witness ==
    /\ ~DryRunSet
    /\ ~WaitSet
    /\ pc = "returned"
    /\ Len(tasks) = 2
    /\ Len(prs) = 2

\* The query has returned and no update has been issued.
NothingUpdated ==
    /\ pc \notin {"load_config", "query"}
    /\ log # <<>>
    /\ log[1].op = "query" /\ log[1].ok
    /\ \A k \in DOMAIN log : log[k].op # "update"

\* C9: when the query finds no pending task the run ends with exit code 0
\* and issues no tracker update, no file-system call and no VCS/hosting
\* call: the query is its only call.
C9_NoPendingTasks ==
    (NothingUpdated /\ (tasks = <<>> \/ \A n \in DOMAIN db : db[n].status # Pending)) =>
        /\ tasks = <<>>
        /\ pc = "returned"
        /\ ExitCode = 0
        /\ Len(log) = 1
        /\ ~ENABLED Next

\* No page is pending, and the mocks directory holds a file from before.
C9_Witness ==
    /\ pc = "returned"
    /\ tasks = <<>>
    /\ Len(log) = 1
    /\ DOMAIN files # {}

\* C10: tasks are processed one at a time in the order of the query's
\* result, which is the tracker's order: the first call after the query is
\* for the first task, and where the log passes from one task to another it
\* passes to the next task of the list, after the last step of the one
\* before has returned (the awaiting-test update, or the validation when
\* DRY_RUN is set).
C10_Sequential ==
    /\ \A a, b \in DOMAIN tasks :
           a < b => PageIndex(tasks[a].page_id) < PageIndex(tasks[b].page_id)
    /\ \A k \in DOMAIN log : (k = 1) <=> (log[k].op = "query")
    /\ Len(log) >= 2 => log[2].page = tasks[1].page_id
    /\ \A k \in DOMAIN log :
           (k > 2 /\ log[k].page # log[k - 1].page) =>
               /\ TaskIndex(log[k].page) = TaskIndex(log[k - 1].page) + 1
               /\ log[k - 1].ok
               /\ IF DryRunSet
                  THEN log[k - 1].op = "validate"
                  ELSE IsUpdate(log[k - 1], AwaitingTest)
    /\ \A k \in DOMAIN log : k >= 2 => TaskIndex(log[k].page) \in 1..i

C10_Witness ==
    /\ ~DryRunSet
    /\ Len(tasks) = 2
    /\ i = 2
    /\ \E k \in DOMAIN log : log[k].op = "commit" /\ log[k].page = tasks[2].page_id

\* The text sub occurs in the text s.
Contains(s, sub) ==
    \E k \in 0..(Len(s) - Len(sub)) : SubSeq(s, k + 1, k + Len(sub)) = sub

\* The names of the three required variables.
VarName ==
    [NOTION_TOKEN |-> <<"N", "O", "T", "I", "O", "N", "_", "T", "O", "K", "E", "N">>,
     NOTION_DATABASE_ID |-> <<"N", "O", "T", "I", "O", "N", "_", "D", "A", "T",
                              "A", "B", "A", "S", "E", "_", "I", "D">>,
     GITHUB_REPO |-> <<"G", "I", "T", "H", "U", "B", "_", "R", "E", "P", "O">>]

\* The required variables that are unset or hold only whitespace.
MissingVars == {v \in DOMAIN VarName : \A k \in DOMAIN env[v] : env[v][k] \in WS}

\* C13: when one of NOTION_TOKEN, NOTION_DATABASE_ID, GITHUB_REPO is unset
\* or blank, the process does nothing but exit with code 2: no query, no
\* update, no file-system write and no git or gh call is ever issued, no
\* task is loaded, and once it has exited the message on stderr contains
\* the name of every missing variable.
C13_MissingConfigExits ==
    MissingVars # {} =>
        /\ pc \in {"load_config", "sys_exit_2"}
        /\ log = <<>>
        /\ tasks = <<>> /\ cfg = NoConfig
        /\ prs = <<>> /\ git.head = Main /\ DOMAIN git.branches = {Main}
        /\ pc = "load_config" => stderr = <<>>
        /\ pc = "sys_exit_2" =>
               /\ ExitCode = 2
               /\ ~ENABLED Next
               /\ \A v \in MissingVars : Contains(stderr, VarName[v])

\* The process has exited with only the tracker collection id blank.
C13_Witness ==
    /\ pc = "sys_exit_2"
    /\ MissingVars = {"NOTION_DATABASE_ID"}
    /\ stderr # <<>>

\* The text p is the beginning of the text s.
IsPrefix(p, s) == Len(p) <= Len(s) /\ SubSeq(s, 1, Len(p)) = p

\* The text without its trailing blanks, by position.
TrimRight(s) ==
    LET blank(k) == s[k] \in {" ", "\t", "\n", "\r"}
        last == CHOOSE n \in 0..Len(s) :
                    /\ n = 0 \/ ~blank(n)
                    /\ \A j \in (n + 1)..Len(s) : blank(j)
    IN SubSeq(s, 1, last)

\* The titles of the sections of a text, in order: what follows "## " on
\* each line that starts with it.
Headings(s) ==
    LET starts == {k \in 1..(Len(s) - 2) :
                      /\ s[k] = "#" /\ s[k + 1] = "#" /\ s[k + 2] = " "
                      /\ (k = 1 \/ s[k - 1] = "\n")}
        nth(n) == CHOOSE k \in starts : Cardinality({j \in starts : j < k}) = n - 1
        eol(k) == CHOOSE j \in (k + 3)..(Len(s) + 1) :
                      /\ j = Len(s) + 1 \/ s[j] = "\n"
                      /\ \A m \in (k + 3)..(j - 1) : s[m] # "\n"
    IN [n \in 1..Cardinality(starts) |-> SubSeq(s, nth(n) + 3, eol(nth(n)) - 1)]

Spec_ == <<"S", "p", "e", "c">>
PR_ == <<"P", "R">>
TestReport_ == <<"T", "e", "s", "t", " ", "R", "e", "p", "o", "r", "t">>

\* The text sent by the in-progress update of page p that returned, if any.
InProgressTexts(p) ==
    {log[k].text : k \in {j \in Calls(p) : IsUpdate(log[j], InProgress) /\ log[j].ok}}

\* The call issued last.  Every call of a run is the last one in the state
\* that follows it, so what holds of the last call in every state holds of
\* every call.
LastCall == log[Len(log)]

\* C15: within a run the acceptance document only grows. The text of a
\* task's in-progress update begins with the task's acceptance text as
\* fetched, right-trimmed, keeps its sections and adds one, titled Spec;
\* the text of its awaiting-test update begins with the text of its
\* in-progress update, right-trimmed, keeps its sections in their order
\* and adds PR, or PR and then Test Report, and nothing else.
C15_AppendOnly ==
    (log # <<>> /\ LastCall.op = "update") =>
        LET e == LastCall
            t == tasks[TaskIndex(e.page)]
        IN /\ e.status \in {InProgress, AwaitingTest}
           /\ e.status = InProgress =>
                  /\ IsPrefix(TrimRight(t.acceptance), e.text)
                  /\ Len(e.text) > Len(TrimRight(t.acceptance))
                  /\ Headings(e.text) = Headings(t.acceptance) \o <<Spec_>>
           /\ e.status = AwaitingTest =>
                  \E before \in InProgressTexts(e.page) :
                      /\ IsPrefix(TrimRight(before), e.text)
                      /\ Len(e.text) > Len(TrimRight(before))
                      /\ \E added \in {<<PR_>>, <<PR_, TestReport_>>} :
                             Headings(e.text) = Headings(before) \o added

\* A task that had an acceptance text before the run has had its
\* awaiting-test update, with a Test Report section.
C15_Witness ==
    /\ log # <<>>
    /\ IsUpdate(LastCall, AwaitingTest)
    /\ LastCall.ok
    /\ tasks[TaskIndex(LastCall.page)].acceptance = <<"o", "l", "d">>
    /\ Len(Headings(LastCall.text)) = 3

\* Page p has had one checks-watch call, after its PR-create call and
\* before its one awaiting-test update.
ChecksWatched(p) ==
    Trace(p, {"update", "pr_create", "pr_checks"}) =
        <<(<<"update", InProgress>>), (<<"pr_create", "">>),
          (<<"pr_checks", "">>), (<<"update", AwaitingTest>>)>>

\* Page p has had no checks-watch call.
NoChecksWatch(p) == \A k \in Calls(p) : log[k].op # "pr_checks"

\* The sections of a text sent with the awaiting-test status are those the
\* task had, then Spec, PR, Test Report in this order when WAIT_FOR_CI is
\* set, and Spec, PR when it is not; no other text sent has a Test Report
\* section.
SectionsSent ==
    (log # <<>> /\ LastCall.op = "update") =>
        LET had == Headings(tasks[TaskIndex(LastCall.page)].acceptance)
            sent == Headings(LastCall.text)
        IN IF LastCall.status = AwaitingTest
           THEN sent = had \o (IF WaitSet THEN <<Spec_, PR_, TestReport_>>
                               ELSE <<Spec_, PR_>>)
           ELSE \A h \in DOMAIN sent : sent[h] # TestReport_

\* C16 as stated: with WAIT_FOR_CI set, every task whose calls all returned
\* has had exactly one checks-watch call, between its PR-create call and
\* its single awaiting-test update, whose text has the sections Spec, PR,
\* Test Report in order; with WAIT_FOR_CI not set no task has a
\* checks-watch call or a Test Report section.
C16_ChecksWatchedWhenFlagSet ==
    /\ \A n \in DOMAIN tasks :
           /\ (WaitSet /\ Completed(n)) => ChecksWatched(tasks[n].page_id)
           /\ ~WaitSet => NoChecksWatch(tasks[n].page_id)
    /\ SectionsSent

\* C16 amended: the same, for a run that is not a dry run; in a dry run no
\* task has a checks-watch call, an awaiting-test update or a Test Report
\* section, whatever WAIT_FOR_CI is.
C16_ChecksWatchedUnlessDryRun ==
    /\ \A n \in DOMAIN tasks :
           /\ (WaitSet /\ ~DryRunSet /\ Completed(n)) =>
                  ChecksWatched(tasks[n].page_id)
           /\ (~WaitSet \/ DryRunSet) => NoChecksWatch(tasks[n].page_id)
           /\ DryRunSet =>
                  \A k \in Calls(tasks[n].page_id) : ~IsUpdate(log[k], AwaitingTest)
    /\ SectionsSent

\* With WAIT_FOR_CI set, in a run that is not a dry run, the second of two
\* tasks has just had its awaiting-test update, and both have had their
\* checks watched.
C16_Witness ==
    /\ WaitSet
    /\ ~DryRunSet
    /\ pc = "returned"
    /\ Len(tasks) = 2
    /\ IsUpdate(LastCall, AwaitingTest)
    /\ Len(Headings(LastCall.text)) >= 3
    /\ \A n \in DOMAIN tasks : ChecksWatched(tasks[n].page_id)

\* The positions of the checkout calls that returned, in order.
Checkouts == {k \in DOMAIN log : log[k].op = "checkout" /\ log[k].ok}

\* The history h2 starts with all the commits of the history h1.
IsCommitPrefix(h1, h2) == Len(h1) <= Len(h2) /\ SubSeq(h2, 1, Len(h1)) = h1

\* C19: no branch that exists is ever checked out: every checkout that
\* returned made a new branch, and the branch checked out is the one made
\* last, the base branch only before the first. The branch of a later task
\* starts from the branch of the task before it, so it has all the commits
\* of that branch, the mock commits of the earlier tasks among them; and
\* the tree of each commit is the whole mocks directory.
C19_BranchesStack ==
    /\ git.head = IF Checkouts = {} THEN Main
                  ELSE log[CHOOSE k \in Checkouts : \A j \in Checkouts : j <= k].text
    /\ \A k \in Checkouts :
           /\ log[k].text # Main
           /\ log[k].text \in DOMAIN git.branches
           /\ \A j \in Checkouts :
                  j < k =>
                      /\ log[j].text # log[k].text
                      /\ IsCommitPrefix(git.branches[log[j].text],
                                        git.branches[log[k].text])
    /\ \A k \in DOMAIN log :
           (log[k].op = "commit" /\ log[k].ok) =>
               \E c \in DOMAIN head_history :
                   /\ c > 1
                   /\ head_history[c].message =
                          <<"A", "d", "d", " ", "m", "o", "c", "k", " ", "f",
                            "o", "r", " ">> \o tasks[TaskIndex(log[k].page)].title
    /\ pc = "push" => head_tree = files

\* Two tasks have been published: the second branch has the commit of the
\* first, and its own commit holds both mock files.
C19_Witness ==
    /\ pc = "returned"
    /\ Len(prs) = 2
    /\ Len(head_history) = 3
    /\ Cardinality(DOMAIN head_tree) = 2
    /\ Cardinality(DOMAIN head_history[2].tree) = 1
    /\ Cardinality(DOMAIN git.branches) = 3

\* ------------------------------------------------------------------ the mock functions on their own

\* Number of calls of ensure_mock and validate_mock in a row.
MaxCalls == 2

FirstTitle == <<"A", " ", "b", "!", " ">>

\* Every document made of some of the keys of a full document with one
\* extra key.
AllDocs(page) ==
    {Restrict(EditedMock(page), K) : K \in SUBSET (DOMAIN EditedMock(page))}

\* Any of the database's pages as a task, and any document, or none, in the
\* file of the first page.
InitMock ==
    /\ env = GoodEnv(<<>>, <<>>)
    /\ cfg = load_config(env)
    /\ db = [k \in 1..NumPages |->
                Page(k, IF k % 2 = 1 THEN FirstTitle ELSE <<>>, Pending)]
    /\ tasks = notion_query_tasks(db)
    /\ i = 0
    /\ pc = "mock_calls"
    /\ acceptance_text = <<>>
    /\ updated_text = <<>>
    /\ branch = <<>>
    /\ pr_url = <<>>
    /\ \/ files = EmptyTree
       \/ \E doc \in AllDocs(db[1]) : files = (mock_file(db[1].id) :> doc)
    /\ mocks_dir \in (IF DOMAIN files = {} THEN BOOLEAN ELSE {TRUE})
    /\ LET root == <<[message |-> <<"i", "n", "i", "t">>, tree |-> EmptyTree]>>
       IN git = [head |-> Main, branches |-> (Main :> root),
                 index |-> EmptyTree, remote |-> (Main :> root)]
    /\ prs = <<>>
    /\ log = <<>>
    /\ stderr = <<>>
    /\ call = NoCall

\* ensure_mock(task, repo_root), lines 159-175, for any task.
call_ensure_mock ==
    /\ pc = "mock_calls"
    /\ Len(log) < MaxCalls
    /\ \E n \in DOMAIN tasks :
        LET r == ensure_mock(tasks[n], files)
            before == IF mock_file(tasks[n].page_id) \in DOMAIN files
                      THEN "kept" ELSE "written"
        IN /\ mocks_dir' = TRUE
           /\ files' = r.files
           /\ log' = Append(log, Entry("ensure_mock", tasks[n].page_id, before,
                                       r.path, TRUE))
    /\ UNCHANGED <<call, stderr, env, cfg, tasks, i, pc, locals, db, git, prs>>

\* validate_mock(path), lines 177-182, for any mock file that exists.
call_validate_mock ==
    /\ pc = "mock_calls"
    /\ Len(log) < MaxCalls
    /\ \E n \in DOMAIN tasks :
        /\ mock_file(tasks[n].page_id) \in DOMAIN files
        /\ log' = Append(log, Entry("validate", tasks[n].page_id, "",
                                    mock_path(tasks[n].page_id),
                                    mock_is_valid(files[mock_file(tasks[n].page_id)])))
    /\ UNCHANGED <<call, stderr, env, cfg, tasks, i, pc, locals, world>>

NextMock ==
    \/ call_ensure_mock
    \/ call_validate_mock

SpecMock == InitMock /\ [][NextMock]_vars

\* The step is a call of ensure_mock for page p.
EnsureMockStep(p) ==
    /\ Len(log') = Len(log) + 1
    /\ log'[Len(log')].op = "ensure_mock"
    /\ log'[Len(log')].page = p

\* C11: ensure_mock never overwrites and is idempotent: a call for a task
\* whose mock file exists, whatever it holds, returns the file's path and
\* leaves every file as it is; a call always returns the path made of the
\* task's identifier without dashes and leaves the file in place; and a
\* second call for a task returns the path the first returned and leaves
\* the files as the first left them.
C11_EnsureMockIdempotent ==
    [][\A n \in DOMAIN tasks :
          LET p == tasks[n].page_id
          IN EnsureMockStep(p) =>
                 /\ log'[Len(log')].text =
                        <<"m", "o", "c", "k", "s", "/">> \o
                            SelectSeq(p, LAMBDA c : c # "-") \o MockSuffix
                 /\ mock_file(p) \in DOMAIN files'
                 /\ mock_file(p) \in DOMAIN files => files' = files
                 /\ \A k \in DOMAIN log :
                        (log[k].op = "ensure_mock" /\ log[k].page = p) =>
                            /\ log'[Len(log')].text = log[k].text
                            /\ files' = files]_vars

\* ensure_mock has been called twice for a task whose file, from before the
\* calls, lacks a required field, and the file still lacks it.
C11_Witness ==
    /\ pc = "mock_calls"
    /\ Len(log) = 2
    /\ log[1].op = "ensure_mock" /\ log[2].op = "ensure_mock"
    /\ log[1].page = log[2].page
    /\ log[1].status = "kept"
    /\ "notes" \notin DOMAIN files[mock_file(log[1].page)]

\* The step is a call of validate_mock on the mock file of page p.
ValidateMockStep(p) ==
    /\ Len(log') = Len(log) + 1
    /\ log'[Len(log')].op = "validate"
    /\ log'[Len(log')].page = p

\* C12: validate_mock raises its validation error exactly for the
\* documents whose top-level keys lack one of the seven required fields,
\* whatever other keys the document has; it changes neither the files nor
\* anything else outside the process; and it accepts the document that an
\* earlier ensure_mock call wrote for the task.
C12_ValidateMock ==
    [][\A n \in DOMAIN tasks :
          LET p == tasks[n].page_id
          IN ValidateMockStep(p) =>
                 /\ mock_file(p) \in DOMAIN files
                 /\ log'[Len(log')].ok <=>
                        SevenFields \subseteq DOMAIN files[mock_file(p)]
                 /\ UNCHANGED <<files, mocks_dir, db, git, prs>>
                 /\ \A k \in DOMAIN log :
                        (/\ log[k].op = "ensure_mock"
                         /\ log[k].page = p
                         /\ log[k].status = "written") => log'[Len(log')].ok]_vars

\* validate_mock has accepted a document with an extra key and all seven
\* fields.
C12_Witness ==
    /\ pc = "mock_calls"
    /\ \E k \in DOMAIN log :
        /\ log[k].op = "validate"
        /\ log[k].ok
        /\ "owner" \in DOMAIN files[mock_file(log[k].page)]

\* ------------------------------------------------------------------ the text functions on their own

\* Number of pieces a text argument is made of, at most.
MaxLen == 3

RECURSIVE Flatten(_)
Flatten(pieces) ==
    IF pieces = <<>> THEN <<>> ELSE Head(pieces) \o Flatten(Tail(pieces))

\* The texts made of at most n of the pieces.
TextsOf(pieces, n) ==
    {Flatten(q) : q \in UNION {[1..k -> pieces] : k \in 0..n}}

\* Pieces of an existing acceptance text: a rule line with the blank line
\* before it, and a blank line, make the delimiter when they meet.
ExistingPieces ==
    {<<"a">>, <<" ">>, <<"\n", "\n", "-", "-", "-">>, <<"\n", "\n">>}

\* Pieces of a section body.
BodyPieces == {<<"b">>, <<" ">>, <<"\n", "\n", "-", "-", "-", "\n", "\n">>}

\* Titles of a section.
SectionTitles == {<<"X">>, <<"\n", "\n", "-", "-", "-", "\n">>}

\* Pieces of a task title: letters of both cases, a digit, an ideograph,
\* the three characters kept besides, a tab and punctuation.
TitlePieces ==
    {<<"F", "i">>, <<" ">>, <<"-">>, <<"_">>, <<"9">>, <<"U+6807">>,
     <<"\t">>, <<"!">>}

FixLoginBug ==
    <<"F", "i", "x", " ", "L", "o", "g", "i", "n", " ", "B", "u", "g", "!",
      "!">>

\* A title of 55 characters, 44 of them kept.
LongTitle == Flatten([k \in 1..11 |-> <<"a", "b", " ", "C", "!">>])

BranchTitles == TextsOf(TitlePieces, MaxLen) \cup {FixLoginBug, LongTitle}

BranchIds ==
    {<<"a", "b", "c", "1", "2", "3", "4", "5", "-", "x", "y", "z">>,
     <<"a", "1", "-", "x", "-", "y">>, <<"-", "x">>, <<"a", "b">>}

BranchPrefixes == {Feature, <<"x", "/", "y">>}

GitBranchNameCalls ==
    {[fn |-> "git_branch_name",
      args |-> <<prefix, [page_id |-> id, title |-> title,
                          description |-> <<>>, acceptance |-> <<>>]>>,
      done |-> FALSE, result |-> <<>>] :
        prefix \in BranchPrefixes, id \in BranchIds, title \in BranchTitles}

AppendSectionCalls ==
    {[fn |-> "append_section", args |-> <<existing, title, body>>,
      done |-> FALSE, result |-> <<>>] :
        existing \in TextsOf(ExistingPieces, MaxLen),
        title \in SectionTitles,
        body \in TextsOf(BodyPieces, MaxLen)}

\* A call of one text function with any of the arguments, nothing else
\* going on.
InitText ==
    /\ call \in AppendSectionCalls \cup GitBranchNameCalls
    /\ env = GoodEnv(<<>>, <<>>)
    /\ cfg = load_config(env)
    /\ db = <<>>
    /\ tasks = <<>>
    /\ i = 0
    /\ pc = "text_call"
    /\ acceptance_text = <<>>
    /\ updated_text = <<>>
    /\ branch = <<>>
    /\ pr_url = <<>>
    /\ mocks_dir = FALSE
    /\ files = EmptyTree
    /\ LET root == <<[message |-> <<"i", "n", "i", "t">>, tree |-> EmptyTree]>>
       IN git = [head |-> Main, branches |-> (Main :> root),
                 index |-> EmptyTree, remote |-> (Main :> root)]
    /\ prs = <<>>
    /\ log = <<>>
    /\ stderr = <<>>

\* append_section(existing, title, body), lines 139-142.
call_append_section ==
    /\ pc = "text_call"
    /\ call.fn = "append_section"
    /\ ~call.done
    /\ call' = [call EXCEPT !.done = TRUE,
                            !.result = append_section(call.args[1], call.args[2],
                                                      call.args[3])]
    /\ UNCHANGED <<stderr, env, cfg, tasks, i, pc, locals, world, log>>

\* git_branch_name(prefix, task), lines 185-189.
call_git_branch_name ==
    /\ pc = "text_call"
    /\ call.fn = "git_branch_name"
    /\ ~call.done
    /\ call' = [call EXCEPT !.done = TRUE,
                            !.result = git_branch_name(call.args[1], call.args[2])]
    /\ UNCHANGED <<stderr, env, cfg, tasks, i, pc, locals, world, log>>

NextText ==
    \/ call_append_section
    \/ call_git_branch_name

SpecText == InitText /\ [][NextText]_vars

\* str.count: the occurrences of sub in s, counted from the left without
\* overlap.
RECURSIVE Count(_, _)
Count(s, sub) ==
    IF Len(s) < Len(sub) THEN 0
    ELSE IF SubSeq(s, 1, Len(sub)) = sub
         THEN 1 + Count(SubSeq(s, Len(sub) + 1, Len(s)), sub)
         ELSE Count(Tail(s), sub)

ThreeDashes == <<"\n", "\n", "-", "-", "-", "\n", "\n">>

Returned(fn) == call.fn = fn /\ call.done

\* C14 as stated: append_section on an empty text returns a text with no
\* three-dash delimiter; on a non-empty text each call adds exactly one
\* occurrence of the delimiter to those of the right-trimmed text, and the
\* result is strictly longer than the right-trimmed text.
C14_OneDelimiterPerCall ==
    Returned("append_section") =>
        LET existing == call.args[1]
        IN /\ existing = <<>> => Count(call.result, ThreeDashes) = 0
           /\ existing # <<>> =>
                  /\ Count(call.result, ThreeDashes) =
                         Count(TrimRight(existing), ThreeDashes) + 1
                  /\ Len(call.result) > Len(TrimRight(existing))

\* The section "## title", newline, the body without the blanks around
\* it, newline.
SectionOf(title, body) ==
    LET inner == {k \in DOMAIN body : body[k] \notin {" ", "\t", "\n", "\r"}}
        lo == CHOOSE k \in inner : \A j \in inner : k <= j
        hi == CHOOSE k \in inner : \A j \in inner : j <= k
    IN <<"#", "#", " ">> \o title \o <<"\n">>
           \o (IF inner = {} THEN <<>> ELSE SubSeq(body, lo, hi)) \o <<"\n">>

\* C14 amended: append_section on an empty text returns the one section,
\* which has a delimiter only if title and body bring one; on a non-empty
\* text the result is the right-trimmed text, one delimiter, then the new
\* section, so that it has exactly one occurrence of the delimiter more
\* than the right-trimmed text and the new section have together, and it
\* is strictly longer than the right-trimmed text.
C14_OneDelimiterAdded ==
    Returned("append_section") =>
        LET existing == call.args[1]
            section == SectionOf(call.args[2], call.args[3])
            trimmed == TrimRight(existing)
        IN /\ existing = <<>> => call.result = section
           /\ existing # <<>> =>
                  /\ Len(call.result) = Len(trimmed) + 7 + Len(section)
                  /\ SubSeq(call.result, 1, Len(trimmed)) = trimmed
                  /\ SubSeq(call.result, Len(trimmed) + 1, Len(trimmed) + 7)
                         = ThreeDashes
                  /\ SubSeq(call.result, Len(trimmed) + 8, Len(call.result))
                         = section
                  /\ Count(call.result, ThreeDashes) =
                         Count(trimmed, ThreeDashes) + 1
                             + Count(section, ThreeDashes)
                  /\ Len(call.result) > Len(trimmed)

\* append_section has returned for a text of blanks only, and for a body
\* that holds a delimiter of its own.
C14_Witness ==
    /\ Returned("append_section")
    /\ call.args[1] # <<>>
    /\ TrimRight(call.args[1]) = <<>>
    /\ Count(SectionOf(call.args[2], call.args[3]), ThreeDashes) = 1
    /\ Count(call.result, ThreeDashes) = 2

\* The smallest and the largest of a non-empty set of numbers.
Least(S) == CHOOSE k \in S : \A j \in S : k <= j
Greatest(S) == CHOOSE k \in S : \A j \in S : j <= k

\* The slug of a title, step by step as the claim tells it.
SlugOf(title) ==
    LET letters == {"a", "b", "c", "d", "e", "f", "g", "h", "i", "j", "k", "l",
                    "m", "n", "o", "p", "q", "r", "s", "t", "u", "v", "w", "x",
                    "y", "z"}
        capitals == [A |-> "a", B |-> "b", C |-> "c", F |-> "f", L |-> "l"]
        lowered == [k \in DOMAIN title |->
                       IF title[k] \in DOMAIN capitals THEN capitals[title[k]]
                       ELSE title[k]]
        keep(c) == \/ c \in letters
                   \/ c \in {"0", "1", "2", "3", "4", "5", "6", "7", "8", "9"}
                   \/ c = "U+6807"
                   \/ c \in {"-", "_", " "}
        kept == SelectSeq(lowered, keep)
        solid == {k \in DOMAIN kept : kept[k] # " "}
        trimmed == IF solid = {} THEN <<>>
                   ELSE SubSeq(kept, Least(solid), Greatest(solid))
        dashed == [k \in DOMAIN trimmed |->
                      IF trimmed[k] = " " THEN "-" ELSE trimmed[k]]
        cut == IF Len(dashed) > 40 THEN SubSeq(dashed, 1, 40) ELSE dashed
    IN IF cut = <<>> THEN <<"t", "a", "s", "k">> ELSE cut

\* The part of an identifier before its first dash.
BeforeFirstDash(id) ==
    LET dashes == {k \in DOMAIN id : id[k] = "-"}
    IN IF dashes = {} THEN id ELSE SubSeq(id, 1, Least(dashes) - 1)

\* C17: git_branch_name(prefix, task) is the prefix, "/", the part of the
\* task's identifier before its first dash, "-", and the slug: the title in
\* lower case without the characters that are not alphanumeric, dash,
\* underscore or space, without the spaces around it, with dashes for
\* spaces, cut to 40 characters, and "task" when nothing is left, so never
\* empty; "abc12345-xyz", "Fix Login Bug!!" and "feature" give
\* "feature/abc12345-fix-login-bug".
C17_GitBranchName ==
    Returned("git_branch_name") =>
        LET prefix == call.args[1]
            task_ == call.args[2]
            slug == SlugOf(task_.title)
        IN /\ call.result =
                  prefix \o <<"/">> \o BeforeFirstDash(task_.page_id)
                      \o <<"-">> \o slug
           /\ slug # <<>>
           /\ Len(slug) <= 40
           /\ (/\ prefix = <<"f", "e", "a", "t", "u", "r", "e">>
               /\ task_.page_id = <<"a", "b", "c", "1", "2", "3", "4", "5",
                                    "-", "x", "y", "z">>
               /\ task_.title = FixLoginBug) =>
                  call.result =
                      <<"f", "e", "a", "t", "u", "r", "e", "/", "a", "b",
                        "c", "1", "2", "3", "4", "5", "-", "f", "i", "x",
                        "-", "l", "o", "g", "i", "n", "-", "b", "u", "g">>

\* git_branch_name has returned for a title with spaces around it and
\* inside it, and for a title longer than 40 characters.
C17_Witness ==
    /\ Returned("git_branch_name")
    /\ \/ /\ Len(call.args[2].title) = 4
          /\ call.args[2].title[1] = " "
          /\ call.args[2].title[2] = "F"
          /\ call.args[2].title[4] = " "
          /\ Len(call.result) > 3
          /\ SubSeq(call.result, Len(call.result) - 2, Len(call.result)) =
                 <<"-", "f", "i">>
       \/ /\ call.args[2].title = LongTitle
          /\ Len(call.result) = Len(call.args[1]) + 1
                 + Len(BeforeFirstDash(call.args[2].page_id)) + 1 + 40

\* ------------------------------------------------------------------ one run after another

\* Number of runs of the script, one after the other, on the same tracker
\* and repository.
MaxRuns == 2

\* The first run starts with every page pending, with no mock file from
\* before, in any environment that has the required variables.
InitRuns ==
    /\ Init
    /\ ~config_missing(env)
    /\ \A k \in DOMAIN db : db[k].status = Pending /\ db[k].title = FirstTitle
    /\ files = EmptyTree
    /\ ~mocks_dir

\* The process has ended and the script is started again (lines 260-261),
\* in any environment that has the required variables; the tracker, the
\* working tree, the repository and the pull requests are as the run before
\* left them.
new_run ==
    /\ pc \in {"returned", "raised"}
    /\ Len(SelectSeq(log, LAMBDA e : e.op = "start")) < MaxRuns - 1
    /\ env' \in {e \in Envs : ~config_missing(e)}
    /\ cfg' = NoConfig
    /\ tasks' = <<>>
    /\ i' = 0
    /\ pc' = "load_config"
    /\ acceptance_text' = <<>>
    /\ updated_text' = <<>>
    /\ branch' = <<>>
    /\ pr_url' = <<>>
    /\ stderr' = <<>>
    /\ log' = Append(log, Entry("start", NoPage, "", <<>>, TRUE))
    /\ UNCHANGED <<call, world>>

NextRuns ==
    \/ Next
    \/ new_run

SpecRuns == InitRuns /\ [][NextRuns]_vars

\* A run has been started after the call at position k of the log.
RunStartedAfter(k) == \E m \in DOMAIN log : m > k /\ log[m].op = "start"

\* The number of sections titled Spec in a text.
SpecSections(text) ==
    Len(SelectSeq(Headings(text), LAMBDA h : h = <<"S", "p", "e", "c">>))

\* C18: a task is picked up at most once across runs. Once an update of a
\* page has returned, the page is not pending, in that run and in every
\* later one; no update ever sends the pending status; a run started later
\* does not fetch the page and issues no call for it, so does not publish
\* it, and that also after a dry run and after a run that raised; and no
\* page ever has more than one Spec section.
C18_PickedAtMostOnce ==
    /\ \A k \in DOMAIN log :
           /\ log[k].op = "update" => log[k].status # Pending
           /\ (log[k].op = "update" /\ log[k].ok) =>
                  /\ db[PageIndex(log[k].page)].status # Pending
                  /\ RunStartedAfter(k) =>
                         /\ TaskIndex(log[k].page) = 0
                         /\ \A j \in DOMAIN log :
                                (j > k /\ log[j].page = log[k].page) =>
                                    ~\E m \in DOMAIN log :
                                        k < m /\ m < j /\ log[m].op = "start"
    /\ \A n \in DOMAIN db : SpecSections(db[n].acceptance) <= 1

\* After a dry run that took a page and raised on the next one, a later run
\* that is no dry run has fetched only that next page, has published it and
\* has ended.
C18_Witness ==
    /\ pc = "returned"
    /\ ~DryRunSet
    /\ Len(tasks) = 1
    /\ Len(prs) = 1
    /\ \E m \in DOMAIN log :
           /\ log[m].op = "start"
           /\ log[m - 1].op = "update" /\ ~log[m - 1].ok
           /\ \A k \in 1..(m - 1) : log[k].op \notin VcsOps
           /\ \E k \in 1..(m - 1) : log[k].op = "update" /\ log[k].ok
    /\ \A n \in DOMAIN db : SpecSections(db[n].acceptance) = 1

====
